---- MODULE Spec2Model ----
(***************************************************************************)
(* A model of job_finder.py: the CloudJobFinder pipeline run by main().    *)
(*                                                                         *)
(* Python strings are modelled as sequences of one-character strings, so   *)
(* that lower(), strip(), split(), slicing, len() and the substring test   *)
(* `in` are computed rather than assumed.  None is a value distinct from   *)
(* every string.  The report is modelled line by line: each line of the    *)
(* formatted text is a record naming the fixed text of the line (tag), the *)
(* number it interpolates (n) and the string it interpolates (text).  The  *)
(* two timestamps of the report are part of the fixed text of their lines. *)
(* Log output is not part of the state.                                    *)
(***************************************************************************)
EXTENDS Integers, Sequences, FiniteSets, TLC

VARIABLES
  env,            \* the process environment: variable name -> value or None
  custom_query,   \* self.custom_query
  recipients,     \* self.recipients
  pc,             \* position of the control flow of main()
  queries,        \* search_jobs: the list `queries`
  i,              \* search_jobs: the loop index (1-based)
  all_results,    \* search_jobs: the list `all_results`
  reqs,           \* number of requests.get calls made for query i
  response,       \* outcome of the last requests.get call
  issued,         \* number of queries for which a request has been made
  report,         \* job_results: the value search_jobs returned
  sendCount,      \* number of calls of send_email
  sentBody,       \* the `body` argument of the last send_email call
  reqAfterSend,   \* a search request was made after send_email was called
  exc,            \* the exception in flight
  errorFile,      \* error.txt: has it been written by this run, and with what
  interrupted,    \* KeyboardInterrupt was delivered
  exitCode        \* exit status of the process (-1 while it runs)

vars == << env, custom_query, recipients, pc, queries, i, all_results, reqs,
           response, issued, report, sendCount, sentBody, reqAfterSend, exc,
           errorFile, interrupted, exitCode >>

----------------------------------------------------------------------------
(* Python values and string operations                                     *)

None == [k |-> "none", v |-> <<>>]

Str(s) == [k |-> "str", v |-> s]

\* a key that is absent from a JSON object
Missing == [k |-> "missing", v |-> <<>>]

\* bool(x) of a value that is None or a string
Truthy(x) == x.k = "str" /\ x.v # <<>>

\* dict.get(key, default) on a JSON object whose field is x
Get(x, default) == IF x.k = "missing" THEN Str(default) ELSE x

UpperCase ==
  <<"A","B","C","D","E","F","G","H","I","J","K","L","M",
    "N","O","P","Q","R","S","T","U","V","W","X","Y","Z">>

LowerCase ==
  <<"a","b","c","d","e","f","g","h","i","j","k","l","m",
    "n","o","p","q","r","s","t","u","v","w","x","y","z">>

Digits == {"0","1","2","3","4","5","6","7","8","9"}

Letters == {UpperCase[k] : k \in 1..26} \cup {LowerCase[k] : k \in 1..26}

Whitespace == {" ", "\t", "\n", "\r"}

LowerChar(c) ==
  IF \E k \in 1..26 : UpperCase[k] = c
  THEN LowerCase[CHOOSE k \in 1..26 : UpperCase[k] = c]
  ELSE c

\* str.lower()
Lower(s) == [k \in 1..Len(s) |-> LowerChar(s[k])]

\* needle in hay
Contains(needle, hay) ==
  \E k \in 0..(Len(hay) - Len(needle)) :
     \A j \in 1..Len(needle) : hay[k + j] = needle[j]

\* str.strip()
Strip(s) ==
  IF \A k \in 1..Len(s) : s[k] \in Whitespace
  THEN <<>>
  ELSE LET a == CHOOSE k \in 1..Len(s) :
                  s[k] \notin Whitespace /\ \A j \in 1..(k-1) : s[j] \in Whitespace
           b == CHOOSE k \in 1..Len(s) :
                  s[k] \notin Whitespace /\ \A j \in (k+1)..Len(s) : s[j] \in Whitespace
       IN  SubSeq(s, a, b)

\* str.split(',')
RECURSIVE Split(_)
Split(s) ==
  IF \A k \in 1..Len(s) : s[k] # ","
  THEN << s >>
  ELSE LET c == CHOOSE k \in 1..Len(s) : s[k] = "," /\ \A j \in 1..(k-1) : s[j] # ","
       IN  << SubSeq(s, 1, c - 1) >> \o Split(SubSeq(s, c + 1, Len(s)))

----------------------------------------------------------------------------
(* __init__ and _validate_env_vars                                         *)

RequiredVars == << "EMAIL", "EMAIL_PASSWORD", "GOOGLE_API_KEY", "GOOGLE_CSE_ID", "SEND_TO" >>

\* os.getenv(name, default)
GetEnv(e, name, default) == IF e[name].k = "none" THEN default ELSE e[name]

\* MissingVars reporting only the first missing setting
MissingVarsFirstOnly(e) ==
  LET all == SelectSeq(RequiredVars, LAMBDA name : ~Truthy(GetEnv(e, name, None)))
  IN  IF all = <<>> THEN <<>> ELSE << Head(all) >>

\* [var for var, value in required_vars.items() if not value]
MissingVars(e) == SelectSeq(RequiredVars, LAMBDA name : ~Truthy(GetEnv(e, name, None)))

\* [email.strip() for email in self.send_to.split(',')]
Recipients(send_to) ==
  LET parts == Split(send_to) IN [k \in 1..Len(parts) |-> Strip(parts[k])]

LocalChars == Letters \cup Digits \cup {".", "_", "%", "+", "-"}

DomainChars == Letters \cup Digits \cup {".", "-"}

\* re.match(r'^[a-zA-Z0-9._%+-]+@[a-zA-Z0-9.-]+\.[a-zA-Z]{2,}$', s)
MatchesEmail(s) ==
  \E a \in 1..Len(s), d \in 1..Len(s) :
     /\ s[a] = "@" /\ s[d] = "."
     /\ a >= 2 /\ d >= a + 2 /\ Len(s) >= d + 2
     /\ \A k \in 1..(a-1) : s[k] \in LocalChars
     /\ \A k \in (a+1)..(d-1) : s[k] \in DomainChars
     /\ \A k \in (d+1)..Len(s) : s[k] \in Letters

InvalidEmails(rcpts) == SelectSeq(rcpts, LAMBDA r : ~MatchesEmail(r))

NoExc == [type |-> "none", msg |-> "", args |-> <<>>]

\* the exception _validate_env_vars raises for environment e, or NoExc
ValidateEnvVars(e) ==
  IF MissingVars(e) # <<>>
  THEN [type |-> "ValueError", msg |-> "Missing required environment variables", args |-> MissingVars(e)]
  ELSE IF InvalidEmails(Recipients(e["SEND_TO"].v)) # <<>>
  THEN [type |-> "ValueError", msg |-> "Invalid email format(s)",
        args |-> InvalidEmails(Recipients(e["SEND_TO"].v))]
  ELSE NoExc

----------------------------------------------------------------------------
(* search_jobs: the queries and the filter                                 *)

DefaultQueries ==
  << <<"S","p","r","i","n","g"," ","2","0","2","6"," ","S","o","f","t","w","a","r","e"," ","E","n","g","i","n","e","e","r"," ","i","n","t","e","r","n","s","h","i","p"," ","a","p","p","l","i","c","a","t","i","o","n","s"," ","o","p","e","n">>,
     <<"S","p","r","i","n","g"," ","2","0","2","6"," ","s","o","f","t","w","a","r","e"," ","i","n","t","e","r","n","s","h","i","p"," ","r","e","m","o","t","e">>,
     <<"S","p","r","i","n","g"," ","2","0","2","6"," ","F","A","A","N","G"," ","s","o","f","t","w","a","r","e"," ","i","n","t","e","r","n","s","h","i","p">>,
     <<"S","p","r","i","n","g"," ","2","0","2","6"," ","s","t","a","r","t","u","p"," ","s","o","f","t","w","a","r","e"," ","i","n","t","e","r","n","s","h","i","p">>,
     <<"S","p","r","i","n","g"," ","2","0","2","6"," ","R","e","a","c","t"," ","f","u","l","l"," ","s","t","a","c","k"," ","i","n","t","e","r","n","s","h","i","p">>,
     <<"S","p","r","i","n","g"," ","2","0","2","6"," ","S","W","E"," ","i","n","t","e","r","n","s","h","i","p"," ","h","i","r","i","n","g"," ","n","o","w">>,
     <<"2","0","2","6"," ","S","o","f","t","w","a","r","e"," ","E","n","g","i","n","e","e","r"," ","F","u","l","l"," ","t","i","m","e"," ","a","p","p","l","i","c","a","t","i","o","n","s"," ","o","p","e","n">>,
     <<"2","0","2","6"," ","S","o","f","t","w","a","r","e"," ","E","n","g","i","n","e","e","r"," ","h","i","r","i","n","g"," ","n","o","w">>,
     <<"S","D","E"," ","n","e","w"," ","g","r","a","d"," ","2","0","2","6">>,
     <<"S","W","E"," ","n","e","w"," ","g","r","a","d"," ","2","0","2","6">>,
     <<"s","o","f","t","w","a","r","e"," ","e","n","g","i","n","e","e","r"," ","n","e","w"," ","g","r","a","d"," ","2","0","2","6">>,
     <<"s","o","f","t","w","a","r","e"," ","d","e","v","e","l","o","p","e","r"," ","n","e","w"," ","g","r","a","d"," ","2","0","2","6">>,
     <<"s","o","f","t","w","a","r","e"," ","e","n","g","i","n","e","e","r"," ","e","n","t","r","y"," ","l","e","v","e","l"," ","2","0","2","6">>,
     <<"s","o","f","t","w","a","r","e"," ","d","e","v","e","l","o","p","e","r"," ","e","n","t","r","y"," ","l","e","v","e","l"," ","2","0","2","6">>,
     <<"t","e","c","h"," ","c","o","m","p","a","n","y"," ","n","e","w"," ","g","r","a","d"," ","s","o","f","t","w","a","r","e">> >>

\* the list `queries` built at the top of search_jobs
Queries(cq) == IF Strip(cq) # <<>> THEN << Strip(cq) >> ELSE DefaultQueries

job_indicators ==
  << <<"c","a","r","e","e","r","s">>,
     <<"j","o","b","s">>,
     <<"j","o","b">>,
     <<"i","n","t","e","r","n","s","h","i","p">>,
     <<"i","n","t","e","r","n">>,
     <<"a","p","p","l","y">>,
     <<"o","p","p","o","r","t","u","n","i","t","i","e","s">>,
     <<"h","i","r","i","n","g">>,
     <<"e","m","p","l","o","y","m","e","n","t">>,
     <<"g","r","e","e","n","h","o","u","s","e">>,
     <<"l","e","v","e","r">>,
     <<"w","o","r","k","d","a","y">>,
     <<"t","a","l","e","o">>,
     <<"b","a","m","b","o","o","h","r">> >>

key_terms ==
  << <<"s","o","f","t","w","a","r","e">>,
     <<"e","n","g","i","n","e","e","r">>,
     <<"d","e","v","e","l","o","p","e","r">>,
     <<"s","d","e">>,
     <<"i","n","t","e","r","n">>,
     <<"2","0","2","5">> >>

\* any(indicator in url_lower or indicator in title_lower for indicator in job_indicators)
IsJobRelated(url_lower, title_lower) ==
  \E k \in 1..Len(job_indicators) :
     Contains(job_indicators[k], url_lower) \/ Contains(job_indicators[k], title_lower)

\* the body of `for item in items`, from item k on: the results appended, and
\* whether an item raised (item.get(...) returned None, which has no lower())
RECURSIVE ProcessItems(_, _, _, _)
ProcessItems(items, k, query, acc) ==
  IF k > Len(items) THEN [results |-> acc, raised |-> FALSE]
  ELSE LET item  == items[k]
           link  == Get(item.link, <<>>)
           title == Get(item.title, <<>>)
       IN  IF link.k = "none" \/ title.k = "none"
           THEN [results |-> acc, raised |-> TRUE]
           ELSE IF IsJobRelated(Lower(link.v), Lower(title.v))
           THEN ProcessItems(items, k + 1, query,
                  Append(acc, [title   |-> Get(item.title, <<"N","o"," ","t","i","t","l","e">>).v,
                               link    |-> link.v,
                               snippet |-> Get(item.snippet,
                                             <<"N","o"," ","d","e","s","c","r","i","p","t","i","o","n">>),
                               query   |-> query]))
           ELSE ProcessItems(items, k + 1, query, acc)

----------------------------------------------------------------------------
(* _format_results                                                         *)

SnippetLimit == 250

Line(tag, n, text) == [tag |-> tag, n |-> n, text |-> text]

NoResultsMessage == << Line("No internship results found in this search.", 0, <<>>) >>

\* Dedup with the membership test dropped: a later duplicate overwrites the entry
RECURSIVE DedupLastWins(_, _)
DedupLastWins(results, acc) ==
  IF results = <<>> THEN acc
  ELSE LET r == Head(results)
       IN  IF r.link = <<>> THEN DedupLastWins(Tail(results), acc)
           ELSE IF \A k \in 1..Len(acc) : acc[k].link # r.link
           THEN DedupLastWins(Tail(results), Append(acc, r))
           ELSE DedupLastWins(Tail(results),
                              [k \in 1..Len(acc) |-> IF acc[k].link = r.link THEN r ELSE acc[k]])

\* unique_results, as the list of its values in insertion order
RECURSIVE Dedup(_, _)
Dedup(results, acc) ==
  IF results = <<>> THEN acc
  ELSE LET r == Head(results)
       IN  IF r.link # <<>> /\ \A k \in 1..Len(acc) : acc[k].link # r.link
           THEN Dedup(Tail(results), Append(acc, r))
           ELSE Dedup(Tail(results), acc)

\* sum(1 for term in key_terms if term.lower() in x['title'].lower())
Score(x) ==
  Cardinality({k \in 1..Len(key_terms) : Contains(Lower(key_terms[k]), Lower(x.title))})

\* SortByScore with ties in reverse order (a sort ascending, then reversed)
RECURSIVE SortByScoreReversedTies(_, _)
SortByScoreReversedTies(rest, acc) ==
  IF rest = <<>> THEN acc
  ELSE LET x == Head(rest)
           p == Cardinality({k \in 1..Len(acc) : Score(acc[k]) > Score(x)})
       IN  SortByScoreReversedTies(Tail(rest),
                                   SubSeq(acc, 1, p) \o << x >> \o SubSeq(acc, p + 1, Len(acc)))

\* sorted(..., key=Score, reverse=True): descending by key, and elements with
\* equal keys keep their original order
RECURSIVE SortByScore(_, _)
SortByScore(rest, acc) ==
  IF rest = <<>> THEN acc
  ELSE LET x == Head(rest)
           p == Cardinality({k \in 1..Len(acc) : Score(acc[k]) >= Score(x)})
       IN  SortByScore(Tail(rest), SubSeq(acc, 1, p) \o << x >> \o SubSeq(acc, p + 1, Len(acc)))

\* RenderSnippet with >= in place of >
RenderSnippetOffByOne(s) ==
  IF Len(s) >= SnippetLimit THEN SubSeq(s, 1, SnippetLimit) \o <<".", ".", ".">> ELSE s

\* result['snippet'][:250] + "..." if len(result['snippet']) > 250 else result['snippet']
RenderSnippet(s) ==
  IF Len(s) > SnippetLimit THEN SubSeq(s, 1, SnippetLimit) \o <<".", ".", ".">> ELSE s

ResultBlock(idx, r) ==
  << Line("{i}. {title}", idx, r.title),
     Line("   {snippet}", 0, RenderSnippet(r.snippet.v)),
     Line("   {link}", 0, r.link),
     Line("   Found via: {query}", 0, r.query),
     Line("", 0, <<>>) >>

RECURSIVE ResultBlocks(_, _)
ResultBlocks(sorted, k) ==
  IF k > Len(sorted) THEN <<>>
  ELSE ResultBlock(k, sorted[k]) \o ResultBlocks(sorted, k + 1)

Header(n) ==
  << Line("Fall 2025 SWE Internship Search Results", 0, <<>>),
     Line("Generated: {now:%Y-%m-%d %H:%M UTC}", 0, <<>>),
     Line("Found {n} unique opportunities", n, <<>>),
     Line("=", 70, <<>>),
     Line("", 0, <<>>) >>

Footer(n) ==
  << Line("", 0, <<>>),
     Line("Search Summary:", 0, <<>>),
     Line("   * Total unique positions: {n}", n, <<>>),
     Line("   * Search completed: {now:%Y-%m-%d %H:%M:%S UTC}", 0, <<>>),
     Line("   * Next search: Tomorrow at the same time", 0, <<>>),
     Line("", 0, <<>>),
     Line("Tip: Apply early and customize your applications!", 0, <<>>),
     Line("Automated by GitHub Actions with Google Custom Search API", 0, <<>>) >>

\* FormatResultsOf without the early return for an empty list
FormatResultsNoEarlyReturn(results) ==
  LET unique == Dedup(results, <<>>)
      sorted == SortByScore(unique, <<>>)
  IN  IF \E k \in 1..Len(sorted) : sorted[k].snippet.k = "none"
      THEN [raised |-> TRUE, text |-> <<>>]
      ELSE [raised |-> FALSE,
            text   |-> Header(Len(unique)) \o ResultBlocks(sorted, 1) \o Footer(Len(unique))]

\* _format_results(results): the text returned, or raised when len(None) is
\* evaluated for a result whose snippet is None
FormatResultsOf(results) ==
  IF results = <<>> THEN [raised |-> FALSE, text |-> NoResultsMessage]
  ELSE LET unique == Dedup(results, <<>>)
           sorted == SortByScore(unique, <<>>)
       IN  IF \E k \in 1..Len(sorted) : sorted[k].snippet.k = "none"
           THEN [raised |-> TRUE, text |-> <<>>]
           ELSE [raised |-> FALSE,
                 text   |-> Header(Len(unique)) \o ResultBlocks(sorted, 1) \o Footer(Len(unique))]

\* the handler of search_jobs: return f"Error searching for jobs: {e}"
ErrorReport == << Line("Error searching for jobs: {e}", 0, <<>>) >>

----------------------------------------------------------------------------
(* The environment of the run: settings, provider responses, mail outcomes *)

\* the provider stops returning job postings once all_results holds this many
MaxResults == 1

RateLimitStatus == 429

Chars(n) == [k \in 1..n |-> IF k % 7 = 0 THEN " " ELSE LowerCase[(k % 26) + 1]]

ValidAddress == <<"a","@","b",".","c","o">>

EnvChoices ==
  { [name \in {"EMAIL", "EMAIL_PASSWORD", "GOOGLE_API_KEY", "GOOGLE_CSE_ID", "SEND_TO", "CUSTOM_QUERY"} |->
       CASE name = "EMAIL"          -> em
         [] name = "EMAIL_PASSWORD" -> pw
         [] name = "GOOGLE_API_KEY" -> key
         [] name = "GOOGLE_CSE_ID"  -> cse
         [] name = "SEND_TO"        -> to
         [] OTHER                   -> cq] :
      em  \in {None, Str(<<>>), Str(ValidAddress)},
      pw  \in {None, Str(<<>>), Str(<<"p","w">>)},
      key \in {None, Str(<<>>), Str(<<"k">>)},
      cse \in {None, Str(<<>>), Str(<<"c","x">>)},
      to  \in {None, Str(<<>>),
               Str(<<"a","@","b",".","c","o",","," ","c","@","d",".","i","o">>),
               Str(<<"a","@","b",".","c","o",",","b","a","d",",","x","@","y">>)},
      cq  \in {None, Str(<<" ">>), Str(<<" ","s","d","e"," ">>)} }

Item(title, link, snippet) == [title |-> title, link |-> link, snippet |-> snippet]

\* the JSON payloads the provider answers with
JsonBody(error, items) == [json |-> TRUE, error |-> error, items |-> items]

NotJson == [json |-> FALSE, error |-> FALSE, items |-> <<>>]

BodyError == JsonBody(TRUE, <<>>)

BodyJob ==
  JsonBody(FALSE, << Item(Str(<<"S","D","E"," ","I","n","t","e","r","n">>),
                          Str(<<"a",".","i","o","/","j","o","b","s">>),
                          Str(<<"o","k">>)) >>)

BodyMixed ==
  JsonBody(FALSE, << Item(Str(<<"b","l","o","g">>), Str(<<"c",".","i","o","/","b","l","o","g">>), Missing),
                     Item(Missing, Str(<<"a",".","i","o","/","j","o","b","s">>), Missing),
                     Item(Str(<<"H","i","r","i","n","g"," ","S","D","E">>), Missing,
                          Str(Chars(SnippetLimit + 1))) >>)

BodyNullSnippet ==
  JsonBody(FALSE, << Item(Str(<<"d","e","v"," ","j","o","b">>),
                          Str(<<"b",".","i","o","/","a","p","p","l","y">>), None) >>)

BodyNullLink ==
  JsonBody(FALSE, << Item(Str(<<"j","o","b">>), None, Str(<<"o","k">>)) >>)

NoResponse == [kind |-> "none", status |-> 0, body |-> NotJson]

Http(status, body) == [kind |-> "http", status |-> status, body |-> body]

\* requests.get raised a RequestException (timeout, connection error)
Failed(kind) == [kind |-> kind, status |-> 0, body |-> NotJson]

\* what one requests.get call can produce; payloads that add results are
\* offered only while all_results holds fewer than MaxResults results
Responses(room) ==
  { Failed("ConnectionError"),
    Http(RateLimitStatus, BodyError), Http(500, BodyError),
    Http(200, BodyError), Http(200, NotJson), Http(200, BodyNullLink) }
  \cup (IF room THEN { Http(200, BodyJob), Http(200, BodyMixed), Http(200, BodyNullSnippet) }
        ELSE {})

MailOutcomes == {"sent", "SMTPAuthenticationError", "SMTPRecipientsRefused", "SMTPException"}

----------------------------------------------------------------------------
(* main(), CloudJobFinder.run() and search_jobs() as a state machine       *)

NoFile == [written |-> FALSE, msg |-> ""]

Init ==
  /\ env \in EnvChoices
  /\ custom_query = <<>>
  /\ recipients = <<>>
  /\ pc = "main"
  /\ queries = <<>>
  /\ i = 0
  /\ all_results = <<>>
  /\ reqs = 0
  /\ response = NoResponse
  /\ issued = 0
  /\ report = <<>>
  /\ sendCount = 0
  /\ sentBody = <<>>
  /\ reqAfterSend = FALSE
  /\ exc = NoExc
  /\ errorFile = NoFile
  /\ interrupted = FALSE
  /\ exitCode = -1

\* job_finder = CloudJobFinder(): __init__ reads the environment and validates it
Construct ==
  /\ pc = "main"
  /\ custom_query' = GetEnv(env, "CUSTOM_QUERY", Str(<<>>)).v
  /\ LET e == ValidateEnvVars(env)
     IN  IF e.type # "none"
         THEN /\ exc' = e
              /\ pc' = "main_except"
              /\ UNCHANGED recipients
         ELSE /\ recipients' = Recipients(env["SEND_TO"].v)
              /\ pc' = "run"
              /\ UNCHANGED exc
  /\ UNCHANGED << env, queries, i, all_results, reqs, response, issued, report,
                  sendCount, sentBody, reqAfterSend, errorFile, interrupted, exitCode >>

\* run() enters search_jobs(), which builds `queries` and starts the loop
RunStart ==
  /\ pc = "run"
  /\ queries' = Queries(custom_query)
  /\ all_results' = <<>>
  /\ i' = 1
  /\ pc' = "loop"
  /\ UNCHANGED << env, custom_query, recipients, reqs, response, issued, report,
                  sendCount, sentBody, reqAfterSend, exc, errorFile, interrupted, exitCode >>

\* MustRetry as a loop: every 429 is retried
MustRetryEvery429(n, r) == r.kind = "http" /\ r.status = RateLimitStatus

\* response.status_code == 429 after the first requests.get
MustRetry(n, r) == n = 1 /\ r.kind = "http" /\ r.status = RateLimitStatus

\* the first requests.get of query i (after time.sleep(1) when i > 1)
IssueRequest ==
  /\ pc = "loop"
  /\ i <= Len(queries)
  /\ \E r \in Responses(Len(all_results) < MaxResults) : response' = r
  /\ reqs' = 1
  /\ issued' = issued + 1
  /\ reqAfterSend' = (reqAfterSend \/ sendCount > 0)
  /\ pc' = "got"
  /\ UNCHANGED << env, custom_query, recipients, queries, i, all_results, report,
                  sendCount, sentBody, exc, errorFile, interrupted, exitCode >>

\* status 429: time.sleep(5), then the second requests.get of query i
RetryRequest ==
  /\ pc = "got"
  /\ MustRetry(reqs, response)
  /\ \E r \in Responses(Len(all_results) < MaxResults) : response' = r
  /\ reqs' = reqs + 1
  /\ reqAfterSend' = (reqAfterSend \/ sendCount > 0)
  /\ UNCHANGED << env, custom_query, recipients, pc, queries, i, all_results, issued, report,
                  sendCount, sentBody, exc, errorFile, interrupted, exitCode >>

\* `continue`: on to the next query
NextQuery(results) ==
  /\ all_results' = results
  /\ i' = i + 1
  /\ reqs' = 0
  /\ response' = NoResponse
  /\ pc' = "loop"
  /\ UNCHANGED report

\* SearchFailed without the handler: the exception leaves search_jobs
SearchFailedPropagates(results) ==
  /\ all_results' = results
  /\ pc' = "run_except"
  /\ UNCHANGED << i, reqs, response, report >>

\* except Exception in search_jobs: the function returns the error text
SearchFailed(results) ==
  /\ all_results' = results
  /\ report' = ErrorReport
  /\ pc' = "send"
  /\ UNCHANGED << i, reqs, response >>

\* requests.get, raise_for_status or json raised a RequestException (json()
\* raises requests.exceptions.JSONDecodeError, a RequestException)
RaisesRequestException(r) == r.kind # "http" \/ r.status >= 400 \/ ~r.body.json

\* the rest of the loop body: raise_for_status, json, the error payload, the items
HandleResponse ==
  /\ pc = "got"
  /\ ~MustRetry(reqs, response)
  /\ \/ /\ RaisesRequestException(response)
        /\ NextQuery(all_results)
     \/ /\ ~RaisesRequestException(response)
        /\ IF response.body.error
           THEN NextQuery(all_results)
           ELSE LET done == ProcessItems(response.body.items, 1, queries[i], all_results)
                IN  IF done.raised THEN SearchFailed(done.results) ELSE NextQuery(done.results)
  /\ UNCHANGED << env, custom_query, recipients, queries, issued,
                  sendCount, sentBody, reqAfterSend, exc, errorFile, interrupted, exitCode >>

\* after the loop: return self._format_results(all_results)
FormatResults ==
  /\ pc = "loop"
  /\ i > Len(queries)
  /\ LET f == FormatResultsOf(all_results)
     IN  report' = IF f.raised THEN ErrorReport ELSE f.text
  /\ pc' = "send"
  /\ UNCHANGED << env, custom_query, recipients, queries, i, all_results, reqs, response, issued,
                  sendCount, sentBody, reqAfterSend, exc, errorFile, interrupted, exitCode >>

\* send_email raises Exception(error_msg) for every failure of the delivery
SendError(outcome) ==
  [type |-> "Exception",
   msg  |-> CASE outcome = "SMTPAuthenticationError" -> "SMTP Authentication failed. Check your email credentials."
              [] outcome = "SMTPRecipientsRefused"   -> "Invalid recipient email address(es)"
              [] OTHER                               -> "Email sending failed",
   args |-> <<>>]

\* self.send_email(job_results)
SendEmail ==
  /\ pc = "send"
  /\ sendCount' = sendCount + 1
  /\ sentBody' = report
  /\ \E outcome \in MailOutcomes :
        IF outcome = "sent"
        THEN pc' = "run_ok" /\ UNCHANGED exc
        ELSE pc' = "run_except" /\ exc' = SendError(outcome)
  /\ UNCHANGED << env, custom_query, recipients, queries, i, all_results, reqs, response, issued,
                  report, reqAfterSend, errorFile, interrupted, exitCode >>

\* RunExcept without the final raise: run() returns normally
RunExceptNoRaise ==
  /\ pc = "run_except"
  /\ errorFile' = [written |-> TRUE, msg |-> exc.msg]
  /\ pc' = "run_ok"
  /\ UNCHANGED << env, custom_query, recipients, queries, i, all_results, reqs, response, issued,
                  report, sendCount, sentBody, reqAfterSend, exc, interrupted, exitCode >>

\* except Exception in run(): write error.txt, then raise
RunExcept ==
  /\ pc = "run_except"
  /\ errorFile' = [written |-> TRUE, msg |-> exc.msg]
  /\ pc' = "main_except"
  /\ UNCHANGED << env, custom_query, recipients, queries, i, all_results, reqs, response, issued,
                  report, sendCount, sentBody, reqAfterSend, exc, interrupted, exitCode >>

\* except Exception in main(): sys.exit(1)
MainExcept ==
  /\ pc = "main_except"
  /\ exitCode' = 1
  /\ pc' = "exit"
  /\ UNCHANGED << env, custom_query, recipients, queries, i, all_results, reqs, response, issued,
                  report, sendCount, sentBody, reqAfterSend, exc, errorFile, interrupted >>

\* run() returned True: main() prints and returns
MainReturn ==
  /\ pc = "run_ok"
  /\ exitCode' = 0
  /\ pc' = "exit"
  /\ UNCHANGED << env, custom_query, recipients, queries, i, all_results, reqs, response, issued,
                  report, sendCount, sentBody, reqAfterSend, exc, errorFile, interrupted >>

\* except KeyboardInterrupt in main(): sys.exit(0); no handler below main catches it
Interrupt ==
  /\ pc \in {"main", "run", "loop", "got", "send"}
  /\ interrupted' = TRUE
  /\ exitCode' = 0
  /\ pc' = "exit"
  /\ UNCHANGED << env, custom_query, recipients, queries, i, all_results, reqs, response, issued,
                  report, sendCount, sentBody, reqAfterSend, exc, errorFile >>

Next ==
  \/ Construct
  \/ RunStart
  \/ IssueRequest
  \/ RetryRequest
  \/ HandleResponse
  \/ FormatResults
  \/ SendEmail
  \/ RunExcept
  \/ MainExcept
  \/ MainReturn
  \/ Interrupt

Spec == Init /\ [][Next]_vars

----------------------------------------------------------------------------
(* _format_results on its own: every list of at most MaxLen results that   *)
(* search_jobs can build from the postings below                           *)

MaxLen == 3

Result(title, link, snippet, query) ==
  [title |-> title, link |-> link, snippet |-> snippet, query |-> query]

Postings ==
  { Result(<<"S","D","E"," ","I","n","t","e","r","n">>, <<"a",".","i","o","/","j","o","b","s">>,
           Str(Chars(SnippetLimit + 1)), DefaultQueries[1]),
    Result(<<"N","o"," ","t","i","t","l","e">>, <<"a",".","i","o","/","j","o","b","s">>,
           Str(<<"N","o"," ","d","e","s","c","r","i","p","t","i","o","n">>), DefaultQueries[2]),
    Result(<<"d","e","v"," ","j","o","b">>, <<"b",".","i","o","/","a","p","p","l","y">>,
           Str(Chars(SnippetLimit)), DefaultQueries[1]),
    Result(<<"I","n","t","e","r","n"," ","2","0","2","5">>, <<"c",".","i","o","/","h","i","r","i","n","g">>,
           Str(<<"o","k">>), DefaultQueries[2]),
    Result(<<"H","i","r","i","n","g"," ","S","D","E">>, <<>>,
           Str(<<"o","k">>), DefaultQueries[2]),
    Result(<<"j","o","b">>, <<"d",".","i","o">>, None, DefaultQueries[1]),
    Result(<<"E","n","g","i","n","e","e","r">>, <<"e",".","i","o","/","j","o","b">>,
           Str(Chars(SnippetLimit - 1)), DefaultQueries[2]) }

FormatInit ==
  /\ env = [name \in {"EMAIL", "EMAIL_PASSWORD", "GOOGLE_API_KEY", "GOOGLE_CSE_ID", "SEND_TO", "CUSTOM_QUERY"} |-> None]
  /\ custom_query = <<>>
  /\ recipients = <<>>
  /\ pc = "format_call"
  /\ queries = DefaultQueries
  /\ i = 0
  /\ \E n \in 0..MaxLen : all_results \in [1..n -> Postings]
  /\ reqs = 0
  /\ response = NoResponse
  /\ issued = 0
  /\ report = <<>>
  /\ sendCount = 0
  /\ sentBody = <<>>
  /\ reqAfterSend = FALSE
  /\ exc = NoExc
  /\ errorFile = NoFile
  /\ interrupted = FALSE
  /\ exitCode = -1

\* self._format_results(all_results): returns the text, or raises TypeError
FormatCall ==
  /\ pc = "format_call"
  /\ LET f == FormatResultsOf(all_results)
     IN  IF f.raised
         THEN /\ exc' = [type |-> "TypeError", msg |-> "object of type 'NoneType' has no len()", args |-> <<>>]
              /\ UNCHANGED report
         ELSE /\ report' = f.text
              /\ UNCHANGED exc
  /\ pc' = "format_return"
  /\ UNCHANGED << env, custom_query, recipients, queries, i, all_results, reqs, response, issued,
                  sendCount, sentBody, reqAfterSend, errorFile, interrupted, exitCode >>

FormatSpec == FormatInit /\ [][FormatCall]_vars

----------------------------------------------------------------------------
(* Reading a report back                                                   *)

\* the report has the header, the result blocks and the footer
IsListing(rep) == Len(rep) >= 13 /\ rep[1].tag = "Fall 2025 SWE Internship Search Results"

NumBlocks(rep) == (Len(rep) - 13) \div 5

BlockIndex(rep, j) == rep[5 * j + 1].n

BlockTitle(rep, j) == rep[5 * j + 1].text

BlockSnippet(rep, j) == rep[5 * j + 2].text

BlockLink(rep, j) == rep[5 * j + 3].text

BlockQuery(rep, j) == rep[5 * j + 4].text

\* position of the first result of the list with this link
FirstIndex(results, link) ==
  CHOOSE k \in 1..Len(results) :
     results[k].link = link /\ \A j \in 1..(k-1) : results[j].link # link

Links(results) == {results[k].link : k \in 1..Len(results)}

Min(a, b) == IF a < b THEN a ELSE b

\* _format_results returned a listing for a non-empty input
Formatted == pc = "format_return" /\ exc.type = "none" /\ all_results # <<>>

\* the report shows exactly the links of the set L, each once, with the fields
\* of the first result that has the link
KeepsFirstOf(L) ==
  /\ IsListing(report)
  /\ NumBlocks(report) = Cardinality(L)
  /\ report[3].n = Cardinality(L)
  /\ \A l \in L :
       /\ Cardinality({j \in 1..NumBlocks(report) : BlockLink(report, j) = l}) = 1
       /\ \A j \in 1..NumBlocks(report) :
            BlockLink(report, j) = l =>
              LET first == all_results[FirstIndex(all_results, l)]
                  n     == Min(Len(first.snippet.v), SnippetLimit)
              IN  /\ BlockTitle(report, j) = first.title
                  /\ BlockQuery(report, j) = first.query
                  /\ SubSeq(BlockSnippet(report, j), 1, n) = SubSeq(first.snippet.v, 1, n)

\* C3 as stated: for every non-empty raw result list, the report keeps exactly
\* one entry per link value occurring in the input, the first one encountered,
\* and the number of kept entries is the cardinality of the set of link values.
C3_AsStated == Formatted => KeepsFirstOf(Links(all_results))

\* C3 amended: for every non-empty raw result list, the report keeps exactly one
\* entry per non-empty link value of the input, the first one encountered with
\* its own title, snippet and query, and the number of kept entries is the
\* cardinality of the set of non-empty link values; results with an empty link
\* are dropped.
C3_DedupFirstNonEmptyLink == Formatted => KeepsFirstOf(Links(all_results) \ {<<>>})

C3_Witness ==
  /\ Formatted
  /\ \E a, b \in 1..Len(all_results) :
       /\ a < b
       /\ all_results[a].link = all_results[b].link
       /\ all_results[a].link # <<>>
       /\ all_results[a].title # all_results[b].title
  /\ \E k \in 1..Len(all_results) : all_results[k].link = <<>>
  /\ NumBlocks(report) = 1

TitleScore(t) == Score([title |-> t])

\* C7: in the rendered report the results appear in descending order of score,
\* and two results of equal score appear in the order of their first
\* occurrences in the raw input list.
C7_SortedStable ==
  Formatted =>
    \A j, k \in 1..NumBlocks(report) :
       j < k =>
         /\ BlockIndex(report, j) = j
         /\ TitleScore(BlockTitle(report, j)) >= TitleScore(BlockTitle(report, k))
         /\ TitleScore(BlockTitle(report, j)) = TitleScore(BlockTitle(report, k))
              => FirstIndex(all_results, BlockLink(report, j)) < FirstIndex(all_results, BlockLink(report, k))

C7_Witness ==
  /\ Formatted
  /\ NumBlocks(report) = 3
  /\ TitleScore(BlockTitle(report, 1)) = TitleScore(BlockTitle(report, 2))
  /\ TitleScore(BlockTitle(report, 2)) > TitleScore(BlockTitle(report, 3))
  /\ FirstIndex(all_results, BlockLink(report, 3)) = 1

\* C9: a snippet longer than 250 characters is rendered as its first 250
\* characters followed by the marker "...", and a snippet of at most 250
\* characters (250 included) is rendered verbatim.
C9_SnippetTruncation ==
  Formatted =>
    \A j \in 1..NumBlocks(report) :
       LET s == all_results[FirstIndex(all_results, BlockLink(report, j))].snippet.v
           t == BlockSnippet(report, j)
       IN  IF Len(s) > 250
           THEN /\ Len(t) = 253
                /\ \A k \in 1..250 : t[k] = s[k]
                /\ \A k \in 251..253 : t[k] = "."
           ELSE t = s

C9_Witness ==
  /\ Formatted
  /\ \E j, k \in 1..NumBlocks(report) :
       /\ Len(BlockSnippet(report, j)) = 253
       /\ Len(BlockSnippet(report, k)) = 250
       /\ Len(all_results[FirstIndex(all_results, BlockLink(report, k))].snippet.v) = 250

----------------------------------------------------------------------------
(* Properties of the run                                                   *)

\* search_jobs has returned its report to run()
SearchReturned == pc = "send"

\* the loop of search_jobs ran to its end and _format_results was called
LoopCompleted == queries # <<>> /\ i > Len(queries) /\ report # <<>>

\* the configuration loaded: __init__ returned without raising
ConfigLoaded == pc # "main" /\ exc.type # "ValueError" /\ queries # <<>>

\* C1 as stated: whatever happens while one query is requested or its response
\* is handled, every query of the list is still issued, and every result kept
\* from the earlier queries is present in the report search_jobs returns.
C1_AsStated ==
  SearchReturned =>
    /\ issued = Len(queries)
    /\ ~FormatResultsOf(all_results).raised =>
         \A k \in 1..Len(all_results) :
            all_results[k].link # <<>> =>
              /\ IsListing(report)
              /\ \E j \in 1..NumBlocks(report) : BlockLink(report, j) = all_results[k].link

\* C2: a first response with status 429 is followed by exactly one more request
\* for the same query; no query is requested more than twice; when the retry
\* is answered 429 as well, the query adds no result, no exception is in
\* flight and the run moves on to the next query.
C2_RetryOnce ==
  [][ /\ reqs' <= 2
      /\ (reqs' = 2 /\ reqs # 2) => (reqs = 1 /\ response.kind = "http" /\ response.status = 429)
      /\ (pc = "got" /\ reqs = 1 /\ response.kind = "http" /\ response.status = 429 /\ ~interrupted')
           => (reqs' = 2 /\ pc' = "got" /\ i' = i /\ queries' = queries /\ all_results' = all_results)
      /\ (pc = "got" /\ reqs = 2 /\ response.kind = "http" /\ response.status = 429 /\ ~interrupted')
           => (pc' = "loop" /\ i' = i + 1 /\ all_results' = all_results /\ exc' = NoExc) ]_vars

C2_Witness ==
  /\ pc = "got"
  /\ reqs = 2
  /\ response.kind = "http"
  /\ response.status = 429
  /\ i = 2
  /\ Len(queries) > 2
  /\ all_results # <<>>

\* C4 as stated: in every terminal state with a non-zero exit status the error
\* file has been written during this run.
C4_AsStated == (pc = "exit" /\ exitCode # 0) => errorFile.written

\* C5 as stated: an exception raised during the run that is not a per-query
\* search failure, such as an unexpected error inside the search/format stage,
\* is written to the error file and the process exits with a non-zero status.
C5_AsStated ==
  (pc = "exit" /\ ~interrupted /\ report = ErrorReport) => (errorFile.written /\ exitCode # 0)

\* C5 amended: only an exception raised by send_email reaches the handler of
\* run, which writes it to the error file and re-raises it, so that the process
\* exits with status 1; an unexpected error inside the search/format stage is
\* caught inside search_jobs, whose error text is then handed to send_email as
\* the report, and when that delivery succeeds no error file is written and the
\* process exits with status 0.
C5_OnlyDeliveryErrorsEscalate ==
  /\ pc = "run_except" => (sendCount = 1 /\ exc.type = "Exception")
  /\ (SearchReturned /\ report = ErrorReport) => exc = NoExc
  /\ (pc = "exit" /\ ~interrupted /\ exc.type = "Exception")
       => (errorFile = [written |-> TRUE, msg |-> exc.msg] /\ exitCode = 1)
  /\ (pc = "exit" /\ ~interrupted /\ report = ErrorReport)
       => (sendCount = 1 /\ sentBody = ErrorReport)
  /\ (pc = "exit" /\ ~interrupted /\ report = ErrorReport /\ exc = NoExc)
       => (~errorFile.written /\ exitCode = 0)

C5_Witness ==
  /\ pc = "exit"
  /\ ~interrupted
  /\ report = ErrorReport
  /\ i > Len(queries)
  /\ exc.type = "Exception"
  /\ errorFile.written

\* the required settings that are unset or empty
UnsetOrEmpty == {name \in {"EMAIL", "EMAIL_PASSWORD", "GOOGLE_API_KEY", "GOOGLE_CSE_ID", "SEND_TO"} :
                   env[name] = None \/ env[name] = Str(<<>>)}

\* C6: when some required settings are unset or empty, the loader fails with
\* an error naming exactly those settings, each once, before any search
\* request or mail delivery is attempted; otherwise no such error is raised.
C6_AllMissingNamed ==
  (pc # "main" /\ ~(interrupted /\ exc = NoExc)) =>
    IF UnsetOrEmpty # {}
    THEN /\ pc \in {"main_except", "exit"}
         /\ exc.type = "ValueError"
         /\ exc.msg = "Missing required environment variables"
         /\ Len(exc.args) = Cardinality(UnsetOrEmpty)
         /\ {exc.args[k] : k \in 1..Len(exc.args)} = UnsetOrEmpty
         /\ issued = 0 /\ sendCount = 0 /\ ~reqAfterSend
    ELSE exc.msg # "Missing required environment variables"

C6_Witness ==
  /\ pc = "exit"
  /\ exitCode = 1
  /\ Cardinality(UnsetOrEmpty) = 5
  /\ Len(exc.args) = 5

\* C8: when the loop ends with an empty raw result list, the report is exactly
\* the no-results message (one line, no header, block or footer), no exception
\* is raised, and that message is the body handed to send_email.
C8_EmptyGivesNoResults ==
  (LoopCompleted /\ all_results = <<>>) =>
    /\ report = NoResultsMessage
    /\ Len(report) = 1
    /\ ~IsListing(report)
    /\ SearchReturned => exc = NoExc
    /\ sendCount = 1 => sentBody = NoResultsMessage

C8_Witness ==
  /\ LoopCompleted
  /\ all_results = <<>>
  /\ issued = 15
  /\ sendCount = 1
  /\ sentBody = NoResultsMessage

\* C10: send_email is not called before the search is over nor more than once,
\* no search request follows it, and every run whose configuration loaded and
\* that was not interrupted ends having called it exactly once.
C10_OneEmailAfterSearch ==
  /\ sendCount <= 1
  /\ ~reqAfterSend
  /\ sendCount = 1 => pc \notin {"main", "run", "loop", "got", "send"}
  /\ pc \in {"main", "run", "loop", "got", "send"} => sendCount = 0
  /\ (pc = "exit" /\ ~interrupted /\ ConfigLoaded) => sendCount = 1

C10_Witness ==
  /\ pc = "exit"
  /\ ~interrupted
  /\ ConfigLoaded
  /\ sendCount = 1
  /\ issued = 15
  /\ all_results = <<>>
  /\ sentBody = NoResultsMessage
  /\ exitCode = 0

====
